---- MODULE Spec2Model ----
(***************************************************************************)
(* Dread Rune automation (scripts/dread-rune.js, class DreadRuneAutomation) *)
(* as a state machine over the host's object graph.                         *)
(*                                                                          *)
(* Host state: the actors (type, name, traits, condition representations,   *)
(* armor), the active scene (grid, ordered token list), the settings store, *)
(* the chat log and the embedded documents of each actor.  The module keeps *)
(* no state of its own; every handler recomputes from the host state.       *)
(*                                                                          *)
(* Strings are sequences of words; toLowerCase maps each word, includes     *)
(* tests for a word.  Distances are kept as exact squared fractions.        *)
(***************************************************************************)
EXTENDS Integers, Sequences, FiniteSets, TLC

VARIABLES
    actors,     \* game.actors: actor id -> actor data
    scene,      \* game.scenes.active: [active, gridSize, tokens]
    settings,   \* the world's settings storage: [enable, showChat, saveDC, range]
    chat,       \* chat log: the messages ChatMessage.create has stored
    docs,       \* embedded Item documents created on each actor
    pending,    \* ChatMessage.create calls in flight (handlers at their await)
    creating,   \* createEmbeddedDocuments calls in flight
    last,       \* what the most recent onEndTurn call evaluated
    completed,  \* how the most recently resumed handler finished
    triggers,   \* number of turn-end events delivered so far
    saves       \* handleFailedWillSave calls: their number and the most recent one

vars == <<actors, scene, settings, chat, docs, pending, creating, last, completed,
          triggers, saves>>

----------------------------------------------------------------------------
(* Bounds of the model *)

MaxTriggers == 2

----------------------------------------------------------------------------
(* Values of the host language *)

\* JavaScript null / undefined for a numeric field
NoValue == -1

NoActor == "none"

ActorIds == {"a1", "a2", "a3"}

\* x || 1 on a numeric field: undefined, null and 0 are falsy
OrOne(v) == IF v = NoValue \/ v = 0 THEN 1 ELSE v

\* String.prototype.toLowerCase on one word
ToLowerWord(w) ==
    CASE w = "Dread" -> "dread"
      [] w = "DREAD" -> "dread"
      [] w = "Greater" -> "greater"
      [] w = "Moderate" -> "moderate"
      [] w = "Lesser" -> "lesser"
      [] w = "Rune" -> "rune"
      [] w = "Eerie" -> "eerie"
      [] w = "Sigil" -> "sigil"
      [] w = "Fortification" -> "fortification"
      [] w = "Frightened" -> "frightened"
      [] w = "Sickened" -> "sickened"
      [] w = "Goblin" -> "goblin"
      [] w = "Wolf" -> "wolf"
      [] w = "Companion" -> "companion"
      [] w = "Valeros" -> "valeros"
      [] w = "Ally" -> "ally"
      [] w = "Evil" -> "evil"
      [] w = "Good" -> "good"
      [] w = "Lawful" -> "lawful"
      [] w = "Chaotic" -> "chaotic"
      [] w = "Hostile" -> "hostile"
      [] w = "Owl" -> "owl"
      [] w = "Familiar" -> "familiar"
      [] OTHER -> w

toLowerCase(s) == [i \in DOMAIN s |-> ToLowerWord(s[i])]

\* String.prototype.includes / Array.prototype.includes for one word
includes(s, w) == \E i \in DOMAIN s : s[i] = w

\* a string is truthy when it is neither undefined nor empty
Truthy(s) == s # <<>>

----------------------------------------------------------------------------
(* Rune tiers *)

DREAD_RUNE_TYPES ==
    [lesser   |-> [name |-> "Lesser Dread Rune",   dc |-> 20, range |-> 30, minFrightened |-> 1],
     moderate |-> [name |-> "Moderate Dread Rune", dc |-> 29, range |-> 30, minFrightened |-> 2],
     greater  |-> [name |-> "Greater Dread Rune",  dc |-> 38, range |-> 30, minFrightened |-> NoValue]]

NoRune == [name |-> "none", dc |-> 0, range |-> 0, minFrightened |-> NoValue]

ALLY_TRAITS ==
    {"ally", "friendly", "helpful", "beneficial", "construct", "companion",
     "familiar", "pet", "mount", "steed", "guardian", "protector"}

ENEMY_TRAITS ==
    {"enemy", "hostile", "harmful", "dangerous", "evil", "chaotic",
     "aggressive", "violent", "destructive"}

----------------------------------------------------------------------------
(* Rune Source Detector *)

\* variant: the first armor item, equipped or not
EquippedArmorIndex_AnyArmor(armor) == IF armor = <<>> THEN 0 ELSE 1

\* actor.itemTypes.armor.find(armor => armor.isEquipped): index of the first
\* equipped armor, 0 when there is none
EquippedArmorIndex(armor) ==
    IF \E i \in DOMAIN armor : armor[i].isEquipped
    THEN CHOOSE i \in DOMAIN armor :
            /\ armor[i].isEquipped
            /\ \A j \in DOMAIN armor : armor[j].isEquipped => i <= j
    ELSE 0

\* the runeName of one property rune: a bare string is its own name, a
\* structured rune gives rune.name || rune.slug || ''
RuneName(rune) ==
    IF rune.fmt = "string" THEN rune.text
    ELSE IF rune.fmt = "object"
         THEN IF Truthy(rune.name) THEN rune.name
              ELSE IF Truthy(rune.slug) THEN rune.slug ELSE <<>>
         ELSE <<>>

IsDreadName(runeName) == includes(toLowerCase(runeName), "dread")

\* equippedArmor.system.runes?.property, empty when missing
PropertyRunes(item) == IF item.hasProperty THEN item.property ELSE <<>>

hasDreadRuneArmor(a) ==
    LET armor == actors[a].armor
        i == EquippedArmorIndex(armor)
    IN  IF i = 0 THEN FALSE
        ELSE LET runes == PropertyRunes(armor[i])
             IN  \/ \E k \in DOMAIN runes : IsDreadName(RuneName(runes[k]))
                 \/ \E k \in DOMAIN runes :
                       /\ runes[k].fmt = "string"
                       /\ includes(toLowerCase(runes[k].text), "dread")

\* the tier chosen from a dread rune's name
RuneTypeOf(runeName) ==
    IF includes(toLowerCase(runeName), "greater") THEN "greater"
    ELSE IF includes(toLowerCase(runeName), "moderate") THEN "moderate"
    ELSE "lesser"

\* variant: only structured runes are read, a bare string gives no tier
getDreadRuneData_StructuredOnly(a) ==
    LET armor == actors[a].armor
        i == EquippedArmorIndex(armor)
    IN  IF i = 0 THEN NoRune
        ELSE LET runes == PropertyRunes(armor[i])
                 hits == {k \in DOMAIN runes :
                            runes[k].fmt = "object" /\ IsDreadName(RuneName(runes[k]))}
             IN  IF hits = {} THEN NoRune
                 ELSE LET k == CHOOSE k \in hits : \A j \in hits : k <= j
                      IN  DREAD_RUNE_TYPES[RuneTypeOf(RuneName(runes[k]))]

getDreadRuneData(a) ==
    LET armor == actors[a].armor
        i == EquippedArmorIndex(armor)
    IN  IF i = 0 THEN NoRune
        ELSE LET runes == PropertyRunes(armor[i])
                 hits == {k \in DOMAIN runes : IsDreadName(RuneName(runes[k]))}
             IN  IF hits = {} THEN NoRune
                 ELSE LET k == CHOOSE k \in hits : \A j \in hits : k <= j
                      IN  DREAD_RUNE_TYPES[RuneTypeOf(RuneName(runes[k]))]

\* scene.tokens in order, keeping the actors that wear a dread rune
RECURSIVE BearersOf(_)
BearersOf(tokens) ==
    IF tokens = <<>> THEN <<>>
    ELSE LET t == Head(tokens)
             rest == BearersOf(Tail(tokens))
         IN  IF t.actor # NoActor /\ hasDreadRuneArmor(t.actor)
             THEN <<t.actor>> \o rest
             ELSE rest

getDreadRuneActors == BearersOf(scene.tokens)

----------------------------------------------------------------------------
(* Spatial Distance Resolver *)

\* scene.tokens.find(t => t.actor?.id === actor.id): index of the first
\* token of the actor, 0 when it has none
TokenIndex(a) ==
    IF \E i \in DOMAIN scene.tokens : scene.tokens[i].actor = a
    THEN CHOOSE i \in DOMAIN scene.tokens :
            /\ scene.tokens[i].actor = a
            /\ \A j \in DOMAIN scene.tokens : scene.tokens[j].actor = a => i <= j
    ELSE 0

\* variant: a missing scene or token counts as distance zero
Infinity_Zero == [inf |-> FALSE, num |-> 0, den |-> 1]

Infinity == [inf |-> TRUE, num |-> 0, den |-> 1]

\* variant: grid counting, a diagonal step costing the same as a straight one
getDistanceBetween_GridDiagonal(a, b) ==
    IF ~scene.active THEN Infinity
    ELSE LET i == TokenIndex(a)
             j == TokenIndex(b)
         IN  IF i = 0 \/ j = 0 THEN Infinity
             ELSE LET dx == scene.tokens[j].x - scene.tokens[i].x
                      dy == scene.tokens[j].y - scene.tokens[i].y
                  IN  [inf |-> FALSE,
                       num |-> 25 * (IF dx * dx > dy * dy THEN dx * dx ELSE dy * dy),
                       den |-> scene.gridSize * scene.gridSize]

\* The distance in feet, (sqrt(dx^2 + dy^2) / gridSize) * 5, kept exactly as
\* its square num / den
getDistanceBetween(a, b) ==
    IF ~scene.active THEN Infinity
    ELSE LET i == TokenIndex(a)
             j == TokenIndex(b)
         IN  IF i = 0 \/ j = 0 THEN Infinity
             ELSE LET dx == scene.tokens[j].x - scene.tokens[i].x
                      dy == scene.tokens[j].y - scene.tokens[i].y
                  IN  [inf |-> FALSE,
                       num |-> 25 * (dx * dx + dy * dy),
                       den |-> scene.gridSize * scene.gridSize]

\* distance <= range, for a range in feet (both sides are non-negative)
WithinRange(d, range) == ~d.inf /\ d.num <= range * range * d.den

----------------------------------------------------------------------------
(* Affecting-Rune Selector *)

\* variant: an in-range bearer with an equal DC also replaces the choice
RECURSIVE HighestDCLoop_LastWins(_, _, _)
HighestDCLoop_LastWins(target, bearers, best) ==
    IF bearers = <<>> THEN best
    ELSE LET b == Head(bearers)
             runeData == getDreadRuneData(b)
             next == IF /\ runeData # NoRune
                        /\ WithinRange(getDistanceBetween(target, b), runeData.range)
                        /\ runeData.dc >= best.dc
                     THEN [actor |-> b, dc |-> runeData.dc]
                     ELSE best
         IN  HighestDCLoop_LastWins(target, Tail(bearers), next)

\* the loop of getDreadRuneActorAffecting: best is [actor, dc], replaced only
\* by an in-range bearer with a strictly greater DC
RECURSIVE HighestDCLoop(_, _, _)
HighestDCLoop(target, bearers, best) ==
    IF bearers = <<>> THEN best
    ELSE LET b == Head(bearers)
             runeData == getDreadRuneData(b)
             next == IF /\ runeData # NoRune
                        /\ WithinRange(getDistanceBetween(target, b), runeData.range)
                        /\ runeData.dc > best.dc
                     THEN [actor |-> b, dc |-> runeData.dc]
                     ELSE best
         IN  HighestDCLoop(target, Tail(bearers), next)

RECURSIVE AffectingLoop(_, _)
AffectingLoop(target, bearers) ==
    IF bearers = <<>> THEN <<>>
    ELSE LET b == Head(bearers)
             runeData == getDreadRuneData(b)
             rest == AffectingLoop(target, Tail(bearers))
         IN  IF runeData # NoRune
                /\ WithinRange(getDistanceBetween(target, b), runeData.range)
             THEN <<b>> \o rest
             ELSE rest

\* variant: the first in-range bearer in token order, DCs not compared
getDreadRuneActorAffecting_FirstInRange(target) ==
    IF ~scene.active THEN NoActor
    ELSE LET hits == AffectingLoop(target, getDreadRuneActors)
         IN  IF hits = <<>> THEN NoActor ELSE Head(hits)

getDreadRuneActorAffecting(target) ==
    IF ~scene.active THEN NoActor
    ELSE IF getDreadRuneActors = <<>> THEN NoActor
    ELSE HighestDCLoop(target, getDreadRuneActors, [actor |-> NoActor, dc |-> -1]).actor

getAllDreadRuneActorsAffecting(target) ==
    IF ~scene.active THEN <<>> ELSE AffectingLoop(target, getDreadRuneActors)

isWithinDreadRuneRange(a) ==
    /\ scene.active
    /\ getDreadRuneActors # <<>>
    /\ \E i \in DOMAIN getDreadRuneActors :
          LET b == getDreadRuneActors[i]
          IN  /\ getDreadRuneData(b) # NoRune
              /\ WithinRange(getDistanceBetween(a, b), getDreadRuneData(b).range)

----------------------------------------------------------------------------
(* Alliance Classifier *)

\* actor.system?.traits?.value, lower-cased when present
LowerTraits(a) == toLowerCase(actors[a].traits.value)

\* variant: the enemy tags are tested before the ally tags
isActorAnAlly_EnemyFirst(a) ==
    LET act == actors[a]
        hasTraits == act.traits.present
        nameLower == toLowerCase(act.name)
    IN  IF hasTraits /\ \E i \in DOMAIN LowerTraits(a) : LowerTraits(a)[i] \in ENEMY_TRAITS
        THEN FALSE
        ELSE IF hasTraits /\ \E i \in DOMAIN LowerTraits(a) : LowerTraits(a)[i] \in ALLY_TRAITS
        THEN TRUE
        ELSE IF \E w \in {"companion", "ally", "friend", "helper", "assistant", "familiar",
                          "pet", "mount", "steed", "guardian", "protector", "escort"} :
                   includes(nameLower, w)
        THEN TRUE
        ELSE IF hasTraits /\ (includes(LowerTraits(a), "good") \/ includes(LowerTraits(a), "lawful"))
        THEN TRUE
        ELSE FALSE

isActorAnAlly(a) ==
    LET act == actors[a]
        hasTraits == act.traits.present
        nameLower == toLowerCase(act.name)
    IN  IF hasTraits /\ \E i \in DOMAIN LowerTraits(a) : LowerTraits(a)[i] \in ALLY_TRAITS
        THEN TRUE
        ELSE IF hasTraits /\ \E i \in DOMAIN LowerTraits(a) : LowerTraits(a)[i] \in ENEMY_TRAITS
        THEN FALSE
        ELSE IF /\ hasTraits
                /\ includes(act.traits.value, "construct")
                /\ \/ includes(nameLower, "companion")
                   \/ includes(nameLower, "construct")
                   \/ includes(nameLower, "golem")
        THEN TRUE
        ELSE IF \E w \in {"companion", "ally", "friend", "helper", "assistant", "familiar",
                          "pet", "mount", "steed", "guardian", "protector", "escort"} :
                   includes(nameLower, w)
        THEN TRUE
        ELSE IF hasTraits /\ (includes(LowerTraits(a), "good") \/ includes(LowerTraits(a), "lawful"))
        THEN TRUE
        ELSE FALSE

\* variant: a player character is classified by traits and name like an NPC
getActorAlliance_ByTraits(a) == IF isActorAnAlly(a) THEN "party" ELSE "enemy"

getActorAlliance(a) ==
    IF actors[a].type = "character" THEN "party"
    ELSE IF actors[a].type = "npc"
         THEN IF isActorAnAlly(a) THEN "party" ELSE "enemy"
         ELSE "enemy"

isActorEnemyOf(a, b) == getActorAlliance(a) # getActorAlliance(b)

----------------------------------------------------------------------------
(* Condition Extractor *)

\* Results of one probing method: a condition with its value field, nothing
\* (fall through to the next method), or a TypeError
Cond(v) == [kind |-> "cond", value |-> v]
Nothing == [kind |-> "none", value |-> NoValue]
Null == [kind |-> "null", value |-> NoValue]
TypeError == [kind |-> "throw", value |-> NoValue]

\* index of the first TRUE of a sequence of tests, 0 when none: the early
\* return of a for loop and of Array.prototype.find
FirstTrue(flags) ==
    IF \E i \in DOMAIN flags : flags[i]
    THEN CHOOSE i \in DOMAIN flags : flags[i] /\ \A j \in DOMAIN flags : flags[j] => i <= j
    ELSE 0

\* the slug test over the entries of a list
SlugFlags(es) == [i \in DOMAIN es |-> es[i].slug = "frightened"]

\* Method 1: system.conditions.find(...).  Only an array has find; on a Map
\* or a keyed object the call is a TypeError.
Method1(act) ==
    IF act.conditions.shape = "missing" THEN Nothing
    ELSE IF act.conditions.shape = "array"
    THEN LET i == FirstTrue(SlugFlags(act.conditions.entries))
         IN  IF i = 0 THEN Nothing ELSE Cond(act.conditions.entries[i].value)
    ELSE TypeError

\* Methods 2 and 3: iterate a Map (a Collection is not among the shapes kept)
Method2(act) ==
    IF act.conditions.shape = "map"
    THEN LET i == FirstTrue(SlugFlags(act.conditions.entries))
         IN  IF i = 0 THEN Nothing ELSE Cond(act.conditions.entries[i].value)
    ELSE Nothing

\* Method 4: a non-array object, by Object.keys (a Map has no own keys)
Method4(act) ==
    IF act.conditions.shape = "object"
    THEN LET i == FirstTrue(SlugFlags(act.conditions.entries))
         IN  IF i = 0 THEN Nothing ELSE Cond(act.conditions.entries[i].value)
    ELSE Nothing

\* Method 5: actor.effects by slug; the effect itself is returned
Method5(act) ==
    IF act.effects.shape = "missing" THEN Nothing
    ELSE LET i == FirstTrue(SlugFlags(act.effects.items))
         IN  IF i = 0 THEN Nothing ELSE Cond(act.effects.items[i].value)

\* Method 6: the trait list holds "frightened"; a mock condition of value 1
Method6(act) ==
    IF act.traits.present /\ includes(act.traits.value, "frightened")
    THEN Cond(1) ELSE Nothing

IsFrightenedEffect(e) ==
    e.slug = "frightened" \/ includes(toLowerCase(e.name), "frightened")

\* Method 7: actor.effects with a size, by slug or by name
Method7(act) ==
    IF act.effects.shape = "collection" /\ Len(act.effects.items) > 0
    THEN LET i == FirstTrue([k \in DOMAIN act.effects.items |-> IsFrightenedEffect(act.effects.items[k])])
         IN  IF i = 0 THEN Nothing ELSE Cond(OrOne(act.effects.items[i].sysValue))
    ELSE Nothing

\* Method 8: system.details.conditions.frightened
Method8(act) ==
    IF act.detailsConditions.present /\ act.detailsConditions.frightened
    THEN Cond(OrOne(act.detailsConditions.value)) ELSE Nothing

\* Method 9: a key "frightened" under system.conditions, details, attributes,
\* traits or modifiers; value || level || 1
Method9(act) ==
    IF act.conditions.shape = "object"
       /\ \E i \in DOMAIN act.conditions.entries : act.conditions.entries[i].slug = "frightened"
    THEN LET i == FirstTrue(SlugFlags(act.conditions.entries))
         IN  Cond(OrOne(act.conditions.entries[i].value))
    ELSE IF act.keyed.location # "none"
    THEN Cond(IF act.keyed.value # NoValue /\ act.keyed.value # 0 THEN act.keyed.value
              ELSE OrOne(act.keyed.level))
    ELSE Nothing

\* modifier.label.match(/Frightened\s+(\d+)/): the number, else 1
LabelValue(label) ==
    IF label.word = "Frightened" /\ label.n # NoValue THEN label.n ELSE 1

\* Method 10: system.attributes.ac.modifiers
Method10(act) ==
    IF act.acModifiers.present
    THEN LET i == FirstTrue(SlugFlags(act.acModifiers.mods))
         IN  IF i = 0 THEN Nothing ELSE Cond(LabelValue(act.acModifiers.mods[i].label))
    ELSE Nothing

\* Method 11: the modifiers of every other attribute
Method11(act) ==
    LET i == FirstTrue(SlugFlags(act.otherModifiers))
    IN  IF i = 0 THEN Nothing ELSE Cond(LabelValue(act.otherModifiers[i].label))

Methods(act) ==
    <<Method1(act), Method2(act), Method4(act), Method5(act), Method6(act), Method7(act),
      Method8(act), Method9(act), Method10(act), Method11(act)>>

\* the first method that does not fall through decides
findFrightenedConditionOf(act) ==
    LET ms == Methods(act)
        i == FirstTrue([k \in DOMAIN ms |-> ms[k].kind # "none"])
    IN  IF i = 0 THEN Null ELSE ms[i]

findFrightenedCondition(a) == findFrightenedConditionOf(actors[a])

----------------------------------------------------------------------------
(* Turn-End Trigger *)

\* variant: the magnitude must exceed the floor
doesFrightenedLevelMeetRuneRequirements_Strict(a, frightenedValue) ==
    LET dreadRuneActor == getDreadRuneActorAffecting(a)
    IN  IF dreadRuneActor = NoActor THEN FALSE
        ELSE LET runeData == getDreadRuneData(dreadRuneActor)
             IN  IF runeData = NoRune THEN FALSE
                 ELSE IF runeData.minFrightened = NoValue THEN TRUE
                 ELSE frightenedValue > runeData.minFrightened

doesFrightenedLevelMeetRuneRequirements(a, frightenedValue) ==
    LET dreadRuneActor == getDreadRuneActorAffecting(a)
    IN  IF dreadRuneActor = NoActor THEN FALSE
        ELSE LET runeData == getDreadRuneData(dreadRuneActor)
             IN  IF runeData = NoRune THEN FALSE
                 ELSE IF runeData.minFrightened = NoValue THEN TRUE
                 ELSE frightenedValue >= runeData.minFrightened

\* a returned boolean, or an exception leaving the function
Returns(b) == [kind |-> "return", result |-> b]
Throws == [kind |-> "throw", result |-> FALSE]

\* variant: the alliance of the governing source is not looked at
shouldCheckDreadRune_NoEnemyCheck(a) ==
    LET dreadRuneActor == getDreadRuneActorAffecting(a)
    IN  IF dreadRuneActor = NoActor THEN Returns(FALSE)
        ELSE LET frightenedCondition == findFrightenedCondition(a)
             IN  IF frightenedCondition.kind = "throw" THEN Throws
                 ELSE IF frightenedCondition.kind = "null" THEN Returns(FALSE)
                 ELSE IF ~doesFrightenedLevelMeetRuneRequirements(
                              a, OrOne(frightenedCondition.value))
                      THEN Returns(FALSE)
                      ELSE Returns(isWithinDreadRuneRange(a))

shouldCheckDreadRune(a) ==
    LET dreadRuneActor == getDreadRuneActorAffecting(a)
    IN  IF dreadRuneActor = NoActor THEN Returns(FALSE)
        ELSE IF ~isActorEnemyOf(a, dreadRuneActor) THEN Returns(FALSE)
        ELSE LET frightenedCondition == findFrightenedCondition(a)
             IN  IF frightenedCondition.kind = "throw" THEN Throws
                 ELSE IF frightenedCondition.kind = "null" THEN Returns(FALSE)
                 ELSE IF ~doesFrightenedLevelMeetRuneRequirements(
                              a, OrOne(frightenedCondition.value))
                      THEN Returns(FALSE)
                      ELSE Returns(isWithinDreadRuneRange(a))

\* variant: the enable flag is not consulted
AutomationEnabled_Always == TRUE

\* game.settings.get(..., "enable-dread-rune") and "show-chat-messages",
\* read at the moment of the call
AutomationEnabled == settings.enable

\* variant: the value registered when the module was set up is kept
ShowChatMessages_AtSetup == TRUE

ShowChatMessages == settings.showChat

\* variant: one announcement for each bearer in range, each with its own DC
processDreadRuneEffect_PerSource(a) ==
    LET all == getAllDreadRuneActorsAffecting(a)
    IN  IF all = <<>> \/ ~settings.showChat THEN [kind |-> "return", msgs |-> <<>>]
        ELSE [kind |-> "create",
              msgs |-> [i \in DOMAIN all |->
                          [target |-> a,
                           rune |-> getDreadRuneData(all[i]).name,
                           dc |-> getDreadRuneData(all[i]).dc,
                           sources |-> <<>>]]]

\* variant: the multiple-sources line lists the other bearers in range only
processDreadRuneEffect_OthersOnly(a) ==
    LET dreadRuneActor == getDreadRuneActorAffecting(a)
        others == SelectSeq(getAllDreadRuneActorsAffecting(a),
                            LAMBDA b : b # dreadRuneActor)
    IN  IF dreadRuneActor = NoActor \/ findFrightenedCondition(a).kind # "cond"
           \/ ~settings.showChat
        THEN [kind |-> "return", msgs |-> <<>>]
        ELSE [kind |-> "create",
              msgs |-> << [target |-> a,
                           rune |-> getDreadRuneData(dreadRuneActor).name,
                           dc |-> getDreadRuneData(dreadRuneActor).dc,
                           sources |-> others] >>]

\* The synchronous part of processDreadRuneEffect, up to its await: the
\* ChatMessage.create calls it makes (at most one), or that it returned
\* early, or that an exception reached its catch block.
processDreadRuneEffect(a) ==
    LET dreadRuneActor == getDreadRuneActorAffecting(a)
    IN  IF dreadRuneActor = NoActor THEN [kind |-> "return", msgs |-> <<>>]
        ELSE LET runeData == getDreadRuneData(dreadRuneActor)
                 frightenedCondition == findFrightenedCondition(a)
                 allAffectingActors == getAllDreadRuneActorsAffecting(a)
             IN  IF runeData = NoRune THEN [kind |-> "return", msgs |-> <<>>]
                 ELSE IF frightenedCondition.kind = "throw"
                      THEN [kind |-> "caught", msgs |-> <<>>]
                 ELSE IF frightenedCondition.kind = "null"
                      THEN [kind |-> "return", msgs |-> <<>>]
                 ELSE IF ShowChatMessages
                      THEN [kind |-> "create",
                            msgs |-> << [target |-> a,
                                         rune |-> runeData.name,
                                         dc |-> runeData.dc,
                                         sources |-> IF Len(allAffectingActors) > 1
                                                     THEN allAffectingActors ELSE <<>>] >>]
                      ELSE [kind |-> "return", msgs |-> <<>>]

\* variant: the error leaves the handler
processDreadRuneEffectCatch_Rethrow == "rejected"

\* the catch block of processDreadRuneEffect: the error is logged and the
\* function returns normally
processDreadRuneEffectCatch == "caught"

\* Turn-end events the host delivers: (combatant, combat), either of which
\* may be missing, and a combatant whose actor may not resolve
Events ==
    {[combat |-> TRUE, combatant |-> TRUE, actor |-> a] : a \in ActorIds}
    \cup {[combat |-> FALSE, combatant |-> TRUE, actor |-> "a1"],
          [combat |-> TRUE, combatant |-> FALSE, actor |-> NoActor],
          [combat |-> TRUE, combatant |-> TRUE, actor |-> NoActor]}

NoEvaluation ==
    [actor |-> NoActor, status |-> "none", gov |-> NoActor, enemy |-> FALSE,
     found |-> "none", value |-> 0, meets |-> FALSE, created |-> 0]

\* what the handler computed for the actor before it returned, threw or
\* suspended: each field is filled only when the code got to compute it
Evaluation(a, status, created) ==
    LET gov == getDreadRuneActorAffecting(a)
        enemy == gov # NoActor /\ isActorEnemyOf(a, gov)
        fc == IF enemy THEN findFrightenedCondition(a) ELSE Nothing
    IN  [actor |-> a, status |-> status, gov |-> gov, enemy |-> enemy,
         found |-> fc.kind,
         value |-> IF fc.kind = "cond" THEN OrOne(fc.value) ELSE 0,
         meets |-> (fc.kind = "cond"
                    /\ doesFrightenedLevelMeetRuneRequirements(a, OrOne(fc.value))),
         created |-> created]

Wrap(a, msgs) == [i \in DOMAIN msgs |-> [actor |-> a, msg |-> msgs[i]]]

\* onEndTurn(combatant, combat) up to the point where the handler returns
\* or suspends at the await of ChatMessage.create
onEndTurn(ev) ==
    /\ triggers < MaxTriggers
    /\ triggers' = triggers + 1
    /\ UNCHANGED <<actors, scene, settings, chat, docs, creating, completed, saves>>
    /\ IF ~ev.combat \/ ~ev.combatant \/ ev.actor = NoActor
       THEN /\ last' = [NoEvaluation EXCEPT !.status = "skipped"]
            /\ UNCHANGED pending
       ELSE IF ~AutomationEnabled
       THEN /\ last' = [NoEvaluation EXCEPT !.actor = ev.actor, !.status = "disabled"]
            /\ UNCHANGED pending
       ELSE LET check == shouldCheckDreadRune(ev.actor)
            IN  IF check.kind = "throw"
                THEN /\ last' = Evaluation(ev.actor, "rejected", 0)
                     /\ UNCHANGED pending
                ELSE IF ~check.result
                THEN /\ last' = Evaluation(ev.actor, "noop", 0)
                     /\ UNCHANGED pending
                ELSE LET p == processDreadRuneEffect(ev.actor)
                     IN  /\ pending' = pending \o Wrap(ev.actor, p.msgs)
                         /\ last' = Evaluation(
                                ev.actor,
                                IF p.kind = "create" THEN "awaiting"
                                ELSE IF p.kind = "caught" THEN processDreadRuneEffectCatch
                                ELSE "silent",
                                Len(p.msgs))

RemoveAt(s, i) == [k \in 1..(Len(s) - 1) |-> IF k < i THEN s[k] ELSE s[k + 1]]

\* variant: the message is filled in from a field of the module object that
\* every evaluation overwrites, read when the message is stored
ChatMessageCreated_LatestEvaluation ==
    \E i \in DOMAIN pending :
        /\ chat' = Append(chat, [pending[i].msg EXCEPT !.target = last.actor])
        /\ pending' = RemoveAt(pending, i)
        /\ completed' = [actor |-> pending[i].actor, status |-> "announced",
                         createThrew |-> FALSE]
        /\ UNCHANGED <<actors, scene, settings, docs, creating, last, triggers, saves>>

\* the host stores the message: the awaited promise resolves, the handler
\* resumes after the await and returns
ChatMessageCreated ==
    \E i \in DOMAIN pending :
        /\ chat' = Append(chat, pending[i].msg)
        /\ pending' = RemoveAt(pending, i)
        /\ completed' = [actor |-> pending[i].actor, status |-> "announced",
                         createThrew |-> FALSE]
        /\ UNCHANGED <<actors, scene, settings, docs, creating, last, triggers, saves>>

\* ChatMessage.create throws or rejects: the await raises inside the try
\* block and the catch block runs
ChatMessageThrows ==
    \E i \in DOMAIN pending :
        /\ pending' = RemoveAt(pending, i)
        /\ completed' = [actor |-> pending[i].actor,
                         status |-> processDreadRuneEffectCatch,
                         createThrew |-> TRUE]
        /\ UNCHANGED <<actors, scene, settings, chat, docs, creating, last, triggers, saves>>

\* the game master changes a module setting in the settings store
SetSetting ==
    \E e \in BOOLEAN, c \in BOOLEAN :
        /\ settings' = [settings EXCEPT !.enable = e, !.showChat = c]
        /\ settings' # settings
        /\ UNCHANGED <<actors, scene, chat, docs, pending, creating, last, completed,
                       triggers, saves>>

Next ==
    \/ \E ev \in Events : onEndTurn(ev)
    \/ ChatMessageCreated
    \/ ChatMessageThrows
    \/ SetSetting

\* The README lists two more options, Save DC (default 20) and Range in feet
\* (default 30).  initializeSettings registers neither and no code reads
\* them; the fields saveDC and range of the settings storage hold what the
\* game master enters for them.
SetOverride ==
    \E dc \in {20, 25}, r \in {30, 60} :
        /\ settings' = [settings EXCEPT !.saveDC = dc, !.range = r]
        /\ settings' # settings
        /\ UNCHANGED <<actors, scene, chat, docs, pending, creating, last, completed,
                       triggers, saves>>

NextConfig ==
    \/ Next
    \/ SetOverride

----------------------------------------------------------------------------
(* Failed-save handler *)

\* handleFailedWillSave(actor, dreadRuneActor, runeData) is a method of the
\* class that no hook and no other method calls.  NextSave is the host
\* with direct calls of it, for a rune-bearer and a rune tier of the table.

MaxSaves == 2

NoSave ==
    [count |-> 0, actor |-> NoActor, tier |-> "none", found |-> "none",
     value |-> NoValue, outcome |-> "none"]

\* variant: a magnitude equal to the floor also creates the effect
PreventsDecrease_AtFloor(minFrightened, currentValue) ==
    minFrightened # NoValue /\ currentValue # NoValue /\ currentValue >= minFrightened

\* minFrightened !== null && currentValue > minFrightened; an undefined or
\* null currentValue compares false
PreventsDecrease(minFrightened, currentValue) ==
    minFrightened # NoValue /\ currentValue # NoValue /\ currentValue > minFrightened

\* the effect item handed to createEmbeddedDocuments
preventDecreaseEffect(runeData) ==
    [id |-> "dread-rune-prevent-decrease", rune |-> runeData.name,
     floor |-> runeData.minFrightened, level |-> 1,
     duration |-> [value |-> 1, unit |-> "rounds"]]

\* the failure message: "cannot decrease below <floor>", or "cannot decrease
\* at all" when the floor is null
FailureMessage(a, runeData) ==
    [target |-> a, rune |-> runeData.name, failed |-> TRUE,
     floor |-> runeData.minFrightened,
     text |-> IF runeData.minFrightened = NoValue
              THEN "cannot decrease at all this turn"
              ELSE "cannot decrease below floor this turn"]

\* handleFailedWillSave up to its first await, or to its return
handleFailedWillSave(a, dreadRuneActor, tier) ==
    LET runeData == DREAD_RUNE_TYPES[tier]
        frightenedCondition == findFrightenedCondition(a)
        currentValue == frightenedCondition.value
        minFrightened == runeData.minFrightened
        outcome ==
            IF frightenedCondition.kind = "throw" THEN "caught"
            ELSE IF frightenedCondition.kind = "null" THEN "nolonger"
            ELSE IF PreventsDecrease(minFrightened, currentValue) THEN "creating"
            ELSE IF minFrightened = NoValue
                 THEN IF ShowChatMessages THEN "message" ELSE "silent"
                 ELSE "nofloor"
    IN  /\ saves.count < MaxSaves
        /\ saves' = [count |-> saves.count + 1, actor |-> a, tier |-> tier,
                     found |-> frightenedCondition.kind,
                     value |-> currentValue, outcome |-> outcome]
        /\ creating' = IF outcome = "creating"
                       THEN Append(creating, [actor |-> a, tier |-> tier,
                                              doc |-> preventDecreaseEffect(runeData)])
                       ELSE creating
        /\ pending' = IF outcome = "message"
                      THEN Append(pending, [actor |-> a, msg |-> FailureMessage(a, runeData)])
                      ELSE pending
        /\ completed' = IF outcome \in {"creating", "message"} THEN completed
                        ELSE [actor |-> a, status |-> outcome, createThrew |-> FALSE]
        /\ UNCHANGED <<actors, scene, settings, chat, docs, last, triggers>>

\* the host stores the effect item: the handler resumes, reads the chat
\* setting and either starts the failure message or returns
EmbeddedDocumentsCreated ==
    \E i \in DOMAIN creating :
        LET a == creating[i].actor
        IN  /\ docs' = [docs EXCEPT ![a] = Append(@, creating[i].doc)]
            /\ creating' = RemoveAt(creating, i)
            /\ IF ShowChatMessages
               THEN /\ pending' = Append(pending,
                                    [actor |-> a,
                                     msg |-> FailureMessage(a, DREAD_RUNE_TYPES[creating[i].tier])])
                    /\ UNCHANGED completed
               ELSE /\ completed' = [actor |-> a, status |-> "applied", createThrew |-> FALSE]
                    /\ UNCHANGED pending
            /\ UNCHANGED <<actors, scene, settings, chat, last, triggers, saves>>

\* createEmbeddedDocuments throws or rejects: the catch block of
\* handleFailedWillSave logs the error and the handler returns
EmbeddedDocumentsThrows ==
    \E i \in DOMAIN creating :
        /\ creating' = RemoveAt(creating, i)
        /\ completed' = [actor |-> creating[i].actor, status |-> "caught",
                         createThrew |-> TRUE]
        /\ UNCHANGED <<actors, scene, settings, chat, docs, pending, last, triggers, saves>>

NextSave ==
    \/ \E a \in ActorIds, tier \in DOMAIN DREAD_RUNE_TYPES :
          \E b \in {x \in ActorIds : hasDreadRuneArmor(x)} :
              handleFailedWillSave(a, b, tier)
    \/ ChatMessageCreated
    \/ ChatMessageThrows
    \/ SetSetting
    \/ EmbeddedDocumentsCreated
    \/ EmbeddedDocumentsThrows

----------------------------------------------------------------------------
(* Host states the checks start from *)

NoConditions == [shape |-> "missing", entries |-> <<>>]

BaseActor ==
    [type |-> "npc", name |-> <<"Goblin">>,
     traits |-> [present |-> TRUE, value |-> <<>>],
     conditions |-> NoConditions,
     effects |-> [shape |-> "collection", items |-> <<>>],
     detailsConditions |-> [present |-> FALSE, frightened |-> FALSE, value |-> NoValue],
     keyed |-> [location |-> "none", value |-> NoValue, level |-> NoValue],
     acModifiers |-> [present |-> FALSE, mods |-> <<>>],
     otherModifiers |-> <<>>,
     armor |-> <<>>]

Frightened(v) == [slug |-> "frightened", value |-> v]
Sickened == [slug |-> "sickened", value |-> 1]

\* one equipped armor with the given property runes
Equipped(runes) == << [isEquipped |-> TRUE, hasProperty |-> TRUE, property |-> runes] >>

StringRune(text) == [fmt |-> "string", text |-> text]
ObjectRune(name, slug) == [fmt |-> "object", name |-> name, slug |-> slug]

LesserArmor == Equipped(<<StringRune(<<"dread">>)>>)
ModerateArmor == Equipped(<<ObjectRune(<<"Moderate", "Dread", "Rune">>, <<"moderate", "dread">>)>>)
GreaterArmor == Equipped(<<StringRune(<<"Greater", "Dread", "Rune">>)>>)
PlainArmor == Equipped(<<StringRune(<<"Fortification">>)>>)

Token(a, x, y) == [actor |-> a, x |-> x, y |-> y]

\* the tokens present, in scene order or reversed
RECURSIVE Reverse(_)
Reverse(s) == IF s = <<>> THEN <<>> ELSE Append(Reverse(Tail(s)), Head(s))

Orders(tokens) == {tokens, Reverse(tokens)}

ActiveScene(tokens) == [active |-> TRUE, gridSize |-> 100, tokens |-> tokens]
NoScene == [active |-> FALSE, gridSize |-> 100, tokens |-> <<>>]

InitRest ==
    /\ settings = [enable |-> TRUE, showChat |-> TRUE, saveDC |-> 20, range |-> 30]
    /\ chat = <<>>
    /\ docs = [a \in ActorIds |-> <<>>]
    /\ pending = <<>>
    /\ creating = <<>>
    /\ saves = NoSave
    /\ last = NoEvaluation
    /\ completed = [actor |-> NoActor, status |-> "none", createThrew |-> FALSE]
    /\ triggers = 0

\* Scenes: a1 at the origin, a2 at 25, 30 or 35 feet, a3 at 25 or 35 feet
\* or without a token; every tier, both sides, every frightened magnitude
Array(entries) == [shape |-> "array", entries |-> entries]

SceneTargets ==
    {[BaseActor EXCEPT !.conditions = c] :
        c \in {NoConditions, Array(<<Frightened(1)>>), Array(<<Sickened, Frightened(2)>>),
               Array(<<Frightened(3)>>),
               [shape |-> "map", entries |-> <<Frightened(2)>>]}}
    \cup {[BaseActor EXCEPT !.type = "character", !.name = <<"Valeros">>,
                            !.conditions = Array(<<Frightened(2)>>)],
          [BaseActor EXCEPT !.conditions = Array(<<Frightened(3)>>),
                            !.armor = ModerateArmor]}

SceneBearers ==
    {[BaseActor EXCEPT !.type = "character", !.name = <<"Valeros">>, !.armor = r] :
        r \in {PlainArmor, LesserArmor, ModerateArmor, GreaterArmor}}
    \cup {[BaseActor EXCEPT !.armor = GreaterArmor]}

InitScene ==
    /\ \E t \in SceneTargets, b2 \in SceneBearers, b3 \in SceneBearers,
          p2 \in {<<300, 400>>, <<600, 0>>, <<700, 0>>},
          p3 \in {<<0, 500>>, <<>>} :
        /\ b3.type = "character" /\ b3.armor \in {LesserArmor, ModerateArmor}
        /\ actors = [a \in ActorIds |-> IF a = "a1" THEN t ELSE IF a = "a2" THEN b2 ELSE b3]
        /\ \E order \in Orders(<<Token("a1", 0, 0), Token("a2", p2[1], p2[2])>>
                               \o IF p3 = <<>> THEN <<>>
                                  ELSE <<Token("a3", p3[1], p3[2])>>) :
              scene \in {ActiveScene(order)}
                        \cup IF b2.armor = GreaterArmor /\ p3 = <<>>
                             THEN {NoScene} ELSE {}
    /\ InitRest

Spec == InitScene /\ [][Next]_vars

\* Condition shapes: a1 is a hostile creature 25 feet from a2, who wears a
\* lesser dread rune; every representation of a1's condition state varies
Effect(slug, name, value, sysValue) ==
    [slug |-> slug, name |-> name, value |-> value, sysValue |-> sysValue]

Modifier(word, n) == [slug |-> "frightened", label |-> [word |-> word, n |-> n]]

ConditionShapes ==
    {NoConditions, Array(<<>>), Array(<<Sickened, Frightened(2)>>),
     Array(<<Frightened(NoValue)>>),
     [shape |-> "map", entries |-> <<Sickened>>],
     [shape |-> "map", entries |-> <<Frightened(2)>>],
     [shape |-> "object", entries |-> <<>>],
     [shape |-> "object", entries |-> <<Frightened(3)>>]}

EffectShapes ==
    {[shape |-> "collection", items |-> <<>>],
     [shape |-> "collection",
      items |-> <<Effect("frightened", <<"Frightened">>, NoValue, 3)>>],
     [shape |-> "collection",
      items |-> <<Effect("bless", <<"Bless">>, NoValue, NoValue),
                  Effect("", <<"Frightened">>, NoValue, 2)>>],
     [shape |-> "array", items |-> <<Effect("frightened", <<"Frightened">>, 2, 2)>>]}

InitCond ==
    /\ \E c \in ConditionShapes, e \in EffectShapes,
          t \in {<<>>, <<"frightened">>},
          d \in {[present |-> FALSE, frightened |-> FALSE, value |-> NoValue],
                 [present |-> TRUE, frightened |-> TRUE, value |-> 2]},
          k \in {[location |-> "none", value |-> NoValue, level |-> NoValue],
                 [location |-> "details", value |-> NoValue, level |-> 2]},
          m \in {[present |-> FALSE, mods |-> <<>>],
                 [present |-> TRUE, mods |-> <<Modifier("Frightened", 3)>>],
                 [present |-> TRUE, mods |-> <<Modifier("frightened", NoValue)>>]},
          o \in {<<>>, <<Modifier("Frightened", 2)>>} :
        actors = [a \in ActorIds |->
                    IF a = "a1"
                    THEN [BaseActor EXCEPT !.conditions = c, !.effects = e,
                                           !.traits = [present |-> TRUE, value |-> t],
                                           !.detailsConditions = d, !.keyed = k,
                                           !.acModifiers = m, !.otherModifiers = o]
                    ELSE IF a = "a2"
                    THEN [BaseActor EXCEPT !.type = "character", !.name = <<"Valeros">>,
                                           !.armor = LesserArmor]
                    ELSE [BaseActor EXCEPT !.type = "character", !.name = <<"Valeros">>]]
    /\ scene = ActiveScene(<<Token("a1", 0, 0), Token("a2", 300, 400)>>)
    /\ InitRest

SpecCond == InitCond /\ [][Next]_vars

\* Rune lists: a1 is a hostile creature with frightened 2; a2's armor varies
\* in its rune formats, in what is equipped and in where a2 stands
RuneForms ==
    {StringRune(t) : t \in {<<"dread">>, <<"Dread">>, <<"Greater", "DREAD", "Rune">>,
                            <<"Fortification">>}}
    \cup {ObjectRune(n, g) :
            n \in {<<>>, <<"Eerie", "Sigil">>, <<"Moderate", "Dread", "Rune">>},
            g \in {<<>>, <<"dread">>, <<"fortification">>}}

RuneLists ==
    {<<>>} \cup {<<r>> : r \in RuneForms}
           \cup {<<StringRune(<<"Fortification">>), r>> : r \in RuneForms}

ArmorLists ==
    UNION {{Equipped(runes),
            << [isEquipped |-> FALSE, hasProperty |-> TRUE, property |-> runes] >>,
            << [isEquipped |-> FALSE, hasProperty |-> TRUE,
                property |-> <<StringRune(<<"dread">>)>>],
               [isEquipped |-> TRUE, hasProperty |-> TRUE, property |-> runes] >>}
           : runes \in RuneLists}
    \cup {<<>>, << [isEquipped |-> TRUE, hasProperty |-> FALSE, property |-> <<>>] >>}

InitRune ==
    /\ \E r \in ArmorLists :
        actors = [a \in ActorIds |->
                    IF a = "a1"
                    THEN [BaseActor EXCEPT !.conditions = Array(<<Frightened(2)>>)]
                    ELSE IF a = "a2"
                    THEN [BaseActor EXCEPT !.type = "character", !.name = <<"Valeros">>,
                                           !.armor = r]
                    ELSE [BaseActor EXCEPT !.type = "character", !.name = <<"Valeros">>]]
    /\ \E p2 \in {<<300, 400>>, <<700, 0>>} :
          \E order \in Orders(<<Token("a1", 0, 0), Token("a2", p2[1], p2[2])>>) :
              scene = ActiveScene(order)
    /\ InitRest

SpecRune == InitRune /\ [][Next]_vars

\* Alliances: a1, frightened 2, stands 25 feet from a2, who wears a lesser
\* dread rune; type, traits and name of both vary
AllianceTraits ==
    {[present |-> FALSE, value |-> <<>>], [present |-> TRUE, value |-> <<>>],
     [present |-> TRUE, value |-> <<"Evil">>], [present |-> TRUE, value |-> <<"Companion">>],
     [present |-> TRUE, value |-> <<"good">>]}

AllianceActors ==
    {[BaseActor EXCEPT !.type = t, !.traits = tr, !.name = n] :
        t \in {"character", "npc", "hazard"}, tr \in AllianceTraits,
        n \in {<<"Goblin">>, <<"Wolf", "Companion">>}}

InitAlly ==
    /\ \E x \in AllianceActors, y \in {z \in AllianceActors : z.type # "hazard"} :
        actors = [a \in ActorIds |->
                    IF a = "a1" THEN [x EXCEPT !.conditions = Array(<<Frightened(2)>>)]
                    ELSE IF a = "a2" THEN [y EXCEPT !.armor = LesserArmor]
                    ELSE [BaseActor EXCEPT !.traits = [present |-> TRUE, value |-> <<"Evil">>]]]
    /\ scene = ActiveScene(<<Token("a1", 0, 0), Token("a2", 300, 400)>>)
    /\ InitRest

SpecAlly == InitAlly /\ [][Next]_vars

\* Distances: grids of 50, 100 and 140 pixels per square; a1, frightened 2,
\* and the bearers a2 (lesser) and a3 (moderate) at varying token centres,
\* a2 also on the very centre of a1
GridScene(g, tokens) == [ActiveScene(tokens) EXCEPT !.gridSize = g]

InitDist ==
    /\ actors = [a \in ActorIds |->
                    IF a = "a1"
                    THEN [BaseActor EXCEPT !.conditions = Array(<<Frightened(2)>>)]
                    ELSE [BaseActor EXCEPT !.type = "character", !.name = <<"Valeros">>,
                                           !.armor = IF a = "a2" THEN LesserArmor
                                                     ELSE ModerateArmor]]
    /\ \E g \in {50, 100, 140},
          p1 \in {<<0, 0>>, <<-120, 50>>},
          p2 \in {<<0, 0>>, <<180, 240>>, <<300, 400>>, <<0, -700>>},
          p3 \in {<<420, 0>>, <<-600, -800>>} :
        \E order \in Orders(<<Token("a1", p1[1], p1[2]), Token("a2", p2[1], p2[2]),
                               Token("a3", p3[1], p3[2])>>) :
            scene = GridScene(g, order)
    /\ InitRest

SpecDist == InitDist /\ [][Next]_vars

\* Failed saves: a1 stands 25 feet from a2, who wears a lesser dread rune;
\* a1's frightened condition varies in presence, magnitude and shape
InitSave ==
    /\ \E c \in {NoConditions, Array(<<Frightened(1)>>), Array(<<Sickened, Frightened(2)>>),
                  Array(<<Frightened(3)>>), Array(<<Frightened(NoValue)>>),
                  [shape |-> "map", entries |-> <<Frightened(3)>>]} :
        actors = [a \in ActorIds |->
                    IF a = "a1" THEN [BaseActor EXCEPT !.conditions = c]
                    ELSE IF a = "a2"
                    THEN [BaseActor EXCEPT !.type = "character", !.name = <<"Valeros">>,
                                           !.armor = LesserArmor]
                    ELSE [BaseActor EXCEPT !.type = "character", !.name = <<"Valeros">>]]
    /\ scene = ActiveScene(<<Token("a1", 0, 0), Token("a2", 300, 400)>>)
    /\ InitRest

SpecSave == InitSave /\ [][NextSave]_vars

\* Configuration: a1, frightened 2, stands 25, 30 or 50 feet from a2, who
\* wears a lesser or a moderate dread rune
InitConfig ==
    /\ \E r \in {LesserArmor, ModerateArmor} :
        actors = [a \in ActorIds |->
                    IF a = "a1"
                    THEN [BaseActor EXCEPT !.conditions = Array(<<Frightened(2)>>)]
                    ELSE IF a = "a2"
                    THEN [BaseActor EXCEPT !.type = "character", !.name = <<"Valeros">>,
                                           !.armor = r]
                    ELSE [BaseActor EXCEPT !.type = "character", !.name = <<"Valeros">>]]
    /\ \E p2 \in {<<300, 400>>, <<600, 0>>, <<600, 800>>} :
          \E order \in Orders(<<Token("a1", 0, 0), Token("a2", p2[1], p2[2])>>) :
              scene = ActiveScene(order)
    /\ InitRest

SpecConfig == InitConfig /\ [][NextConfig]_vars

\* Classification: a1, frightened 2, is a non-player actor whose kind, trait
\* tags and name vary; it stands 25 feet from a2, a player character or a
\* hostile creature, who wears a lesser dread rune
ClassTraits ==
    {[present |-> FALSE, value |-> <<>>]}
    \cup {[present |-> TRUE, value |-> v] :
            v \in {<<>>, <<"Evil">>, <<"Chaotic">>, <<"Good">>, <<"Lawful">>, <<"Hostile">>,
                   <<"Companion">>, <<"Companion", "Evil">>, <<"Evil", "Companion">>,
                   <<"Hostile", "Good", "Familiar">>}}

ClassActors ==
    {[BaseActor EXCEPT !.type = t, !.traits = tr, !.name = n,
                       !.conditions = Array(<<Frightened(2)>>)] :
        t \in {"npc", "familiar"}, tr \in ClassTraits,
        n \in {<<"Goblin">>, <<"Wolf", "Companion">>, <<"Owl", "Familiar">>}}

InitClass ==
    /\ \E x \in ClassActors, side \in {"character", "npc"} :
        actors = [a \in ActorIds |->
                    IF a = "a1" THEN x
                    ELSE IF a = "a2"
                    THEN [BaseActor EXCEPT !.type = side, !.armor = LesserArmor]
                    ELSE BaseActor]
    /\ scene = ActiveScene(<<Token("a1", 0, 0), Token("a2", 300, 400)>>)
    /\ InitRest

SpecClass == InitClass /\ [][Next]_vars

\* Overlapping triggers: a1, a hostile creature, stands 25 feet from a2, a
\* player character who wears a moderate dread rune; a3, a hostile creature
\* who wears a greater or moderate dread rune, stands 25 feet from a2 and 50
\* feet from a1; all three are frightened
InitPair ==
    /\ \E c1 \in {Array(<<Frightened(2)>>), Array(<<Frightened(3)>>)},
          c2 \in {Array(<<Frightened(1)>>), Array(<<Frightened(2)>>)},
          r3 \in {GreaterArmor, ModerateArmor} :
        actors = [a \in ActorIds |->
                    IF a = "a1" THEN [BaseActor EXCEPT !.conditions = c1]
                    ELSE IF a = "a2"
                    THEN [BaseActor EXCEPT !.type = "character", !.name = <<"Valeros">>,
                                           !.conditions = c2, !.armor = ModerateArmor]
                    ELSE [BaseActor EXCEPT !.conditions = Array(<<Frightened(3)>>),
                                           !.armor = r3]]
    /\ \E order \in Orders(<<Token("a1", 0, 0), Token("a2", 500, 0), Token("a3", 1000, 0)>>) :
          scene = ActiveScene(order)
    /\ InitRest

SpecPair == InitPair /\ [][Next]_vars

\* Ties: a1, a hostile creature with frightened 2, and two player characters
\* a2 and a3 who wear a dread rune of any tier each, a2 at 25 or 35 feet,
\* a3 at 25 or 30 feet, in both token orders
InitTie ==
    /\ \E r2 \in {LesserArmor, ModerateArmor, GreaterArmor},
          r3 \in {LesserArmor, ModerateArmor, GreaterArmor} :
        actors = [a \in ActorIds |->
                    IF a = "a1"
                    THEN [BaseActor EXCEPT !.conditions = Array(<<Frightened(2)>>)]
                    ELSE [BaseActor EXCEPT !.type = "character", !.name = <<"Valeros">>,
                                           !.armor = IF a = "a2" THEN r2 ELSE r3]]
    /\ \E p2 \in {<<300, 400>>, <<700, 0>>}, p3 \in {<<0, 500>>, <<0, -600>>} :
          \E order \in Orders(<<Token("a1", 0, 0), Token("a2", p2[1], p2[2]),
                                 Token("a3", p3[1], p3[2])>>) :
              scene = ActiveScene(order)
    /\ InitRest

SpecTie == InitTie /\ [][Next]_vars

----------------------------------------------------------------------------
(* Properties *)

\* the bearers of the scene as a set, and the rune data of each
Bearers == {getDreadRuneActors[i] : i \in DOMAIN getDreadRuneActors}

\* b's token is at most its tier's range from t's token, from the token
\* centres themselves: 25 (dx^2 + dy^2) <= range^2 gridSize^2
InRangeOf(t, b) ==
    /\ scene.active
    /\ TokenIndex(t) # 0 /\ TokenIndex(b) # 0
    /\ LET tt == scene.tokens[TokenIndex(t)]
           tb == scene.tokens[TokenIndex(b)]
           r == getDreadRuneData(b).range
       IN  25 * ((tb.x - tt.x) * (tb.x - tt.x) + (tb.y - tt.y) * (tb.y - tt.y))
             <= r * r * scene.gridSize * scene.gridSize

InRangeBearers(t) == {b \in Bearers : InRangeOf(t, b)}

\* the tier's threshold, from the tier table: lesser 1, moderate 2, greater none
MeetsFloor(runeData, magnitude) ==
    \/ runeData.name = "Greater Dread Rune"
    \/ runeData.name = "Moderate Dread Rune" /\ magnitude >= 2
    \/ runeData.name = "Lesser Dread Rune" /\ magnitude >= 1

\* the four requirements of the evaluation, for the actor a
AllFourHold(a) ==
    LET gov == getDreadRuneActorAffecting(a)
        fc == findFrightenedCondition(a)
    IN  /\ gov # NoActor
        /\ getActorAlliance(a) # getActorAlliance(gov)
        /\ fc.kind = "cond"
        /\ MeetsFloor(getDreadRuneData(gov), OrOne(fc.value))

Proceeded(ev) == ev.status \in {"awaiting", "silent", "caught"}

\* a step that delivers a turn-end event
TriggerStep == triggers' = triggers + 1

\* C1: a turn-end event with combat, combatant and actor, automation on,
\* goes on to processDreadRuneEffect exactly when the actor has a governing
\* source in range, is its enemy, has a frightened condition and meets the
\* tier's threshold; otherwise no chat message and no document is created.
C1_ProceedsIffAllFour ==
    [][(TriggerStep /\ last'.status \notin {"skipped", "disabled"})
        => /\ Proceeded(last') <=> AllFourHold(last'.actor)
           /\ ~AllFourHold(last'.actor)
                => (chat' = chat /\ pending' = pending /\ docs' = docs)]_vars

C1_Witness ==
    /\ last.status = "awaiting" /\ last.actor = "a1"
    /\ last.gov # NoActor /\ last.enemy /\ last.found = "cond" /\ last.meets
    /\ Len(pending) = 1

\* an evaluation that got as far as calling the selector
Selected(ev) == ev.status \in {"noop", "rejected", "awaiting", "silent", "caught"}

\* C2: for the target of every evaluation, the selector returned an in-range
\* bearer (boundary included) whose DC is at least that of every in-range
\* bearer, and returned none exactly when no bearer is in range or no scene
\* is active.
C2_HighestDCInRange ==
    Selected(last)
      => LET g == last.gov
             inRange == InRangeBearers(last.actor)
         IN  /\ g # NoActor
                 => /\ g \in inRange
                    /\ \A b \in inRange : getDreadRuneData(g).dc >= getDreadRuneData(b).dc
             /\ g = NoActor <=> inRange = {}

\* a trigger chose the DC 29 bearer although a DC 20 bearer in range comes
\* first in the token order, and the chosen one stands exactly at 30 feet
C2_Witness ==
    /\ last.actor = "a1" /\ last.gov = "a2"
    /\ getDreadRuneData("a2").dc = 29
    /\ "a3" \in InRangeBearers("a1") /\ getDreadRuneData("a3").dc = 20
    /\ TokenIndex("a3") < TokenIndex("a2")
    /\ scene.tokens[TokenIndex("a2")].x = 600

\* C3: a turn-end event produces at most one announcement, for the actor
\* whose turn ended and against one DC; no other step produces any.
C3_AtMostOneAnnouncement ==
    [][/\ Len(chat') + Len(pending') <= Len(chat) + Len(pending) + 1
       /\ ~TriggerStep => Len(chat') + Len(pending') <= Len(chat) + Len(pending)
       /\ TriggerStep
            => \A i \in DOMAIN pending' :
                  i > Len(pending)
                    => /\ pending'[i].msg.target = last'.actor
                       /\ pending'[i].actor = last'.actor
                       /\ last'.created = 1]_vars

C3_Witness ==
    /\ Len(chat) = 1 /\ pending = <<>> /\ triggers = 1
    /\ chat[1].target = "a1"
    /\ Cardinality(InRangeBearers("a1")) >= 2

\* C4: with the enable flag off a turn-end event evaluates nothing and
\* creates no chat message and no document.
C4_DisabledNoEffect ==
    [][(TriggerStep /\ ~settings.enable)
        => /\ last'.status \in {"skipped", "disabled"}
           /\ chat' = chat /\ pending' = pending /\ docs' = docs]_vars

C4_Witness ==
    /\ last.status = "disabled" /\ last.actor = "a1"
    /\ ~settings.enable /\ settings.showChat
    /\ AllFourHold("a1")
    /\ chat = <<>> /\ pending = <<>>

\* the largest frightened magnitude the threshold check is tried on
MaxMagnitude == 3

\* C5: under a lesser or moderate governing tier the threshold check passes
\* iff the magnitude is at least the tier's floor; under a greater governing
\* tier it passes at every magnitude; and the trigger of a frightened enemy
\* proceeds accordingly.
C5_ThresholdAtFloor ==
    (Selected(last) /\ last.gov # NoActor)
      => LET runeData == getDreadRuneData(last.gov)
         IN  /\ \A v \in 0..MaxMagnitude :
                   doesFrightenedLevelMeetRuneRequirements(last.actor, v)
                     <=> MeetsFloor(runeData, v)
             /\ (last.enemy /\ last.found = "cond")
                   => /\ last.meets <=> MeetsFloor(runeData, last.value)
                      /\ Proceeded(last) <=> MeetsFloor(runeData, last.value)

\* magnitude exactly at the moderate floor: the trigger went on
C5_Witness ==
    /\ last.enemy /\ last.found = "cond" /\ last.value = 2
    /\ getDreadRuneData(last.gov).minFrightened = 2
    /\ last.status = "awaiting"

\* C6: when ChatMessage.create throws, the handler catches it and returns
\* normally, makes no second attempt, and leaves the host state and hence
\* every later evaluation as they were.
C6_CreateFailureCaught ==
    [][(Len(pending') < Len(pending) /\ chat' = chat)
        => /\ completed'.createThrew /\ completed'.status = "caught"
           /\ Len(pending') = Len(pending) - 1
           /\ UNCHANGED <<actors, scene, settings, docs, last, triggers>>]_vars

C6_Witness ==
    /\ completed.createThrew /\ completed.status = "caught"
    /\ completed.actor = "a1"
    /\ chat = <<>> /\ pending = <<>> /\ triggers = 1

\* some representation of the actor's condition state carries frightened
CarriesFrightened(act) ==
    \/ \E i \in DOMAIN act.conditions.entries : act.conditions.entries[i].slug = "frightened"
    \/ \E i \in DOMAIN act.effects.items :
          \/ act.effects.items[i].slug = "frightened"
          \/ includes(toLowerCase(act.effects.items[i].name), "frightened")
    \/ act.traits.present /\ includes(act.traits.value, "frightened")
    \/ act.detailsConditions.present /\ act.detailsConditions.frightened
    \/ act.keyed.location # "none"
    \/ \E i \in DOMAIN act.acModifiers.mods : act.acModifiers.mods[i].slug = "frightened"
    \/ \E i \in DOMAIN act.otherModifiers : act.otherModifiers[i].slug = "frightened"

\* an evaluation that got as far as calling the condition extractor
Extracted(ev) == Selected(ev) /\ ev.enemy

\* C7: the extractor returns a condition or null and never throws, whatever
\* the shape of the condition state, so the evaluation of a turn-end event
\* never throws because of it.
C7_ExtractorTotal ==
    Extracted(last) => (last.found \in {"cond", "null"} /\ last.status # "rejected")

\* C8: for an actor none of whose representations carries frightened the
\* extractor returns null, and the trigger announces nothing.
C8_AbsentIsNull ==
    (Extracted(last) /\ ~CarriesFrightened(actors[last.actor]))
      => (last.found = "null" /\ last.status = "noop")

\* the match of the earliest representation in probing order, a Map or a
\* keyed object being probed like the list before it
FirstMatchInOrder(act) ==
    LET ms == <<IF act.conditions.shape = "array" THEN Method1(act) ELSE Nothing,
                Method2(act), Method4(act), Method5(act), Method6(act), Method7(act),
                Method8(act), Method9(act), Method10(act), Method11(act)>>
        i == FirstTrue([k \in DOMAIN ms |-> ms[k].kind # "none"])
    IN  IF i = 0 THEN Null ELSE ms[i]

\* C9: an actor that carries frightened in several representations gets the
\* match of the earliest one in probing order, and the trigger uses its
\* magnitude, 1 when the match carries no explicit number.
C9_FirstRepresentationWins ==
    (Extracted(last) /\ CarriesFrightened(actors[last.actor]))
      => /\ last.found = "cond"
         /\ last.value = OrOne(FirstMatchInOrder(actors[last.actor]).value)

\* the equipped armor has a property rune whose name or slug contains
\* "dread", whatever the case and whatever the rune's format
QualifiesByNameOrSlug(a) ==
    LET armor == actors[a].armor
        i == EquippedArmorIndex(armor)
    IN  /\ i # 0
        /\ \E k \in DOMAIN PropertyRunes(armor[i]) :
              LET rune == PropertyRunes(armor[i])[k]
              IN  IF rune.fmt = "string"
                  THEN includes(toLowerCase(rune.text), "dread")
                  ELSE \/ includes(toLowerCase(rune.name), "dread")
                       \/ includes(toLowerCase(rune.slug), "dread")

\* C10: a property rune of the equipped armor qualifies iff its name or its
\* slug contains "dread", for bare strings and structured runes alike.
C10_NameOrSlugQualifies ==
    (last.status \in {"noop", "rejected", "awaiting", "silent", "caught"})
      => \A i \in DOMAIN scene.tokens :
            hasDreadRuneArmor(scene.tokens[i].actor)
              <=> QualifiesByNameOrSlug(scene.tokens[i].actor)

\* some property rune of the armor item carries "dread" in its name or slug
CarriesDreadRune(item) ==
    \E k \in DOMAIN PropertyRunes(item) :
        LET rune == PropertyRunes(item)[k]
        IN  IF rune.fmt = "string"
            THEN includes(toLowerCase(rune.text), "dread")
            ELSE \/ includes(toLowerCase(rune.name), "dread")
                 \/ includes(toLowerCase(rune.slug), "dread")

\* the actor has no armor, or every dread-rune armor it has is unequipped
NoEquippedDreadArmor(a) ==
    \A i \in DOMAIN actors[a].armor :
        CarriesDreadRune(actors[a].armor[i]) => ~actors[a].armor[i].isEquipped

\* C11: an actor with no armor, or whose dread-rune armor is all unequipped,
\* is no rune source: the detector rejects it, neither getDreadRuneActors nor
\* the selector returns it, no announcement lists it, and when no actor has
\* equipped dread-rune armor nothing is announced at all.
C11_OnlyEquippedCounts ==
    /\ \A a \in ActorIds :
          NoEquippedDreadArmor(a)
            => /\ ~hasDreadRuneArmor(a)
               /\ getDreadRuneData(a) = NoRune
               /\ \A i \in DOMAIN getDreadRuneActors : getDreadRuneActors[i] # a
               /\ \A t \in ActorIds : getDreadRuneActorAffecting(t) # a
               /\ last.gov # a
               /\ \A i \in DOMAIN pending :
                     \A k \in DOMAIN pending[i].msg.sources : pending[i].msg.sources[k] # a
    /\ (\A a \in ActorIds : NoEquippedDreadArmor(a)) => (chat = <<>> /\ pending = <<>>)

\* a frightened enemy ended its turn 25 feet from an actor who carries a
\* dread-rune armor unequipped and wears another armor: nothing governs
C11_Witness ==
    /\ last.actor = "a1" /\ last.status = "noop" /\ last.gov = NoActor
    /\ Len(actors["a2"].armor) = 2
    /\ ~actors["a2"].armor[1].isEquipped /\ CarriesDreadRune(actors["a2"].armor[1])
    /\ actors["a2"].armor[2].isEquipped
    /\ scene.tokens[TokenIndex("a2")].x = 300
    /\ chat = <<>> /\ pending = <<>>

\* a property rune that carries "dread" in its name or slug
IsDreadRune(rune) ==
    IF rune.fmt = "string"
    THEN includes(toLowerCase(rune.text), "dread")
    ELSE \/ includes(toLowerCase(rune.name), "dread")
         \/ includes(toLowerCase(rune.slug), "dread")

\* the tier that the name of the first dread rune of the equipped armor
\* stands for: greater before moderate before lesser, none without a dread rune
TierByName(a) ==
    LET armor == actors[a].armor
        i == EquippedArmorIndex(armor)
    IN  IF i = 0 THEN "none"
        ELSE LET runes == PropertyRunes(armor[i])
                 k == FirstTrue([j \in DOMAIN runes |-> IsDreadRune(runes[j])])
             IN  IF k = 0 THEN "none"
                 ELSE IF includes(toLowerCase(RuneName(runes[k])), "greater") THEN "greater"
                 ELSE IF includes(toLowerCase(RuneName(runes[k])), "moderate") THEN "moderate"
                 ELSE "lesser"

\* C12: getDreadRuneData classifies every actor: a dread rune whose name
\* contains "greater" gives DC 38, range 30, no floor; otherwise one whose
\* name contains "moderate" gives DC 29, range 30, floor 2; any other dread
\* rune gives DC 20, range 30, floor 1; no rune or no dread rune gives none.
C12_TierClassification ==
    \A a \in ActorIds :
        LET runeData == getDreadRuneData(a)
            tier == TierByName(a)
        IN  /\ tier = "none" <=> runeData = NoRune
            /\ tier = "greater"
                  => (runeData.dc = 38 /\ runeData.range = 30
                      /\ runeData.minFrightened = NoValue)
            /\ tier = "moderate"
                  => (runeData.dc = 29 /\ runeData.range = 30 /\ runeData.minFrightened = 2)
            /\ tier = "lesser"
                  => (runeData.dc = 20 /\ runeData.range = 30 /\ runeData.minFrightened = 1)

\* C13: two actors are enemies exactly when their alliances differ; the
\* relation is symmetric, no actor is its own enemy, a player character is
\* always of the party whatever its traits and name, so two player characters
\* are never enemies; the trigger's enemy test is this relation.
C13_EnemyIffAlliancesDiffer ==
    /\ \A a \in ActorIds, b \in ActorIds :
          /\ isActorEnemyOf(a, b) <=> getActorAlliance(a) # getActorAlliance(b)
          /\ isActorEnemyOf(a, b) <=> isActorEnemyOf(b, a)
          /\ (actors[a].type = "character" /\ actors[b].type = "character")
                => ~isActorEnemyOf(a, b)
    /\ \A a \in ActorIds :
          /\ ~isActorEnemyOf(a, a)
          /\ getActorAlliance(a) \in {"party", "enemy"}
          /\ actors[a].type = "character" => getActorAlliance(a) = "party"
    /\ (Selected(last) /\ last.gov # NoActor)
          => (last.enemy <=> getActorAlliance(last.actor) # getActorAlliance(last.gov))

\* a frightened player character with an enemy trait ended its turn in range
\* of a player character with an ally name: not enemies, nothing announced
C13_Witness ==
    /\ last.actor = "a1" /\ last.gov = "a2" /\ ~last.enemy /\ last.status = "noop"
    /\ actors["a1"].type = "character" /\ actors["a2"].type = "character"
    /\ actors["a1"].traits.value = <<"Evil">>
    /\ actors["a2"].name = <<"Wolf", "Companion">>

\* no scene is active, or the actor has no token on the active scene
NoSceneOrToken(a) ==
    ~scene.active \/ \A i \in DOMAIN scene.tokens : scene.tokens[i].actor # a

\* C14: when no scene is active, or the turn's actor or a rune-bearer has no
\* token on the scene, the distance between them is infinite, beyond every
\* tier's range, so that rune-bearer is neither the governing source nor
\* among the affecting sources, and the evaluation ends without throwing.
C14_MissingIsInfinity ==
    Selected(last)
      => /\ NoSceneOrToken(last.actor) => (last.gov = NoActor /\ last.status = "noop")
         /\ \A b \in ActorIds :
            (NoSceneOrToken(last.actor) \/ NoSceneOrToken(b))
              => /\ getDistanceBetween(last.actor, b).inf
                 /\ getDistanceBetween(b, last.actor).inf
                 /\ \A t \in DOMAIN DREAD_RUNE_TYPES :
                       ~WithinRange(getDistanceBetween(last.actor, b),
                                    DREAD_RUNE_TYPES[t].range)
                 /\ last.gov # b
                 /\ getDreadRuneActorAffecting(last.actor) # b
                 /\ \A i \in DOMAIN getAllDreadRuneActorsAffecting(last.actor) :
                       getAllDreadRuneActorsAffecting(last.actor)[i] # b

\* the turn of an actor without a token ended while a rune-bearer stands on
\* the active scene: nothing governs
C14_Witness ==
    /\ last.actor = "a3" /\ last.status = "noop" /\ last.gov = NoActor
    /\ scene.active /\ TokenIndex("a3") = 0 /\ TokenIndex("a2") # 0
    /\ hasDreadRuneArmor("a2")

\* the squared pixel distance between the token centres of two actors
PixelDistanceSq(a, b) ==
    LET ta == scene.tokens[TokenIndex(a)]
        tb == scene.tokens[TokenIndex(b)]
    IN  (tb.x - ta.x) * (tb.x - ta.x) + (tb.y - ta.y) * (tb.y - ta.y)

\* C15: for two actors with tokens on a grid of g pixels, the distance in
\* feet is (d / g) * 5 for the straight-line pixel distance d of the token
\* centres, in squares: feet^2 = (25 * d^2) / g^2; it is 0 for coinciding
\* centres, the same in both argument orders, and within 30 feet exactly
\* when 25 * d^2 <= 900 * g^2.
C15_EuclideanFeet ==
    \A a \in ActorIds, b \in ActorIds :
        LET d == getDistanceBetween(a, b)
            g == scene.gridSize
        IN  /\ ~d.inf
            /\ d.num = 25 * PixelDistanceSq(a, b) /\ d.den = g * g
            /\ PixelDistanceSq(a, b) = 0 => d.num = 0
            /\ d = getDistanceBetween(b, a)
            /\ WithinRange(d, 30) <=> 25 * PixelDistanceSq(a, b) <= 900 * g * g

\* on a grid of 50 pixels the bearer a2 stands 180 by 240 pixels from the
\* turn's actor: 300 pixels, 30 feet, in range and governing
C15_Witness ==
    /\ last.actor = "a1" /\ last.gov = "a2" /\ last.status = "awaiting"
    /\ scene.gridSize = 50
    /\ PixelDistanceSq("a1", "a2") = 90000
    /\ scene.tokens[TokenIndex("a1")].x = 0

\* a step that calls handleFailedWillSave
SaveStep == saves'.count = saves.count + 1

\* the floor of a tier, from the tier table: lesser 1, moderate 2, greater none
HasFloor(tier) == tier \in {"lesser", "moderate"}
FloorOf(tier) == IF tier = "moderate" THEN 2 ELSE 1

\* the failed save of the call s found the target frightened above the floor
AboveFloor(s) == s.found = "cond" /\ HasFloor(s.tier) /\ OrOne(s.value) > FloorOf(s.tier)

\* C16: a call of handleFailedWillSave starts the creation of a Floor-Effect
\* document on the target, of duration 1 round, exactly when the tier has a
\* floor and the target's frightened magnitude is strictly greater than it;
\* at or below the floor, under the greater tier, or with no frightened
\* condition found, none is created; under the greater tier the failure
\* message says the condition cannot decrease at all; documents appear in
\* no other way.
C16_FloorEffectIffAboveFloor ==
    [][/\ SaveStep
          => /\ Len(creating') = Len(creating) + 1 <=> AboveFloor(saves')
             /\ ~AboveFloor(saves') => creating' = creating
             /\ AboveFloor(saves')
                   => LET c == creating'[Len(creating')]
                      IN  /\ c.actor = saves'.actor
                          /\ c.doc.duration = [value |-> 1, unit |-> "rounds"]
                          /\ c.doc.floor = FloorOf(saves'.tier)
             /\ (saves'.tier = "greater" /\ saves'.found = "cond" /\ settings.showChat)
                   => /\ Len(pending') = Len(pending) + 1
                      /\ pending'[Len(pending')].msg.text = "cannot decrease at all this turn"
                      /\ pending'[Len(pending')].msg.target = saves'.actor
             /\ docs' = docs
       /\ docs' # docs
          => \E i \in DOMAIN creating :
                /\ creating' = RemoveAt(creating, i)
                /\ docs' = [docs EXCEPT ![creating[i].actor] = Append(@, creating[i].doc)]]_vars

\* a failed save against the moderate tier at magnitude 3 left one document
\* of one round on the target
C16_Witness ==
    /\ saves.count = 1 /\ saves.actor = "a1" /\ saves.tier = "moderate"
    /\ saves.found = "cond" /\ saves.value = 3
    /\ Len(docs["a1"]) = 1
    /\ docs["a1"][1].duration = [value |-> 1, unit |-> "rounds"]
    /\ docs["a1"][1].floor = 2

\* C17: once a turn-end trigger that announced the check has completed, a
\* target whose frightened magnitude exceeds the floor of the governing tier
\* carries a Floor-Effect document of one round.
C17_FloorEffectAfterTrigger ==
    (completed.status = "announced" /\ completed.actor # NoActor)
      => LET gov == getDreadRuneActorAffecting(completed.actor)
             fc == findFrightenedCondition(completed.actor)
         IN  (/\ gov # NoActor
              /\ fc.kind = "cond"
              /\ getDreadRuneData(gov).minFrightened # NoValue
              /\ OrOne(fc.value) > getDreadRuneData(gov).minFrightened)
               => \E i \in DOMAIN docs[completed.actor] :
                     docs[completed.actor][i].duration = [value |-> 1, unit |-> "rounds"]

\* C18: every turn-end event is decided by the settings as they are at that
\* event: with enable-dread-rune off nothing is evaluated, with it on the
\* evaluation runs; a trigger that proceeds creates its chat message exactly
\* when show-chat-messages is on at that moment, whatever the flags were at
\* earlier triggers.
C18_SettingsReadAtTrigger ==
    [][(TriggerStep /\ last'.status # "skipped")
        => /\ ~settings.enable => (last'.status = "disabled" /\ pending' = pending)
           /\ settings.enable
                 => /\ last'.status # "disabled"
                    /\ Proceeded(last') <=> AllFourHold(last'.actor)
           /\ (settings.enable /\ AllFourHold(last'.actor))
                 => IF settings.showChat
                    THEN last'.status = "awaiting" /\ Len(pending') = Len(pending) + 1
                    ELSE last'.status = "silent" /\ pending' = pending
           /\ ~settings.showChat => pending' = pending]_vars

\* the first turn end of a1 was announced; the flag was then switched off
\* and the second turn end of a1, all else equal, evaluated nothing
C18_Witness ==
    /\ triggers = 2 /\ last.actor = "a1" /\ last.status = "disabled"
    /\ ~settings.enable /\ AllFourHold("a1")
    /\ Len(chat) = 1 /\ chat[1].target = "a1" /\ pending = <<>>

\* b's token is at most r feet from t's token
WithinFeet(t, b, r) ==
    /\ scene.active
    /\ TokenIndex(t) # 0 /\ TokenIndex(b) # 0
    /\ 25 * PixelDistanceSq(t, b) <= r * r * scene.gridSize * scene.gridSize

\* C19: once the Save DC or the Range option has been changed, a turn-end
\* event announces the check against the configured DC, and a rune-bearer
\* governs exactly when one stands within the configured range.
C19_OverridesGovern ==
    [][(/\ TriggerStep
        /\ last'.status \notin {"skipped", "disabled"}
        /\ (settings.saveDC # 20 \/ settings.range # 30))
        => /\ \A i \in DOMAIN pending' :
                 i > Len(pending) => pending'[i].msg.dc = settings.saveDC
           /\ last'.gov # NoActor
                 <=> \E b \in Bearers : WithinFeet(last'.actor, b, settings.range)]_vars

\* name and DC of a tier, from the tier table
TierName(tier) ==
    CASE tier = "greater" -> "Greater Dread Rune"
      [] tier = "moderate" -> "Moderate Dread Rune"
      [] OTHER -> "Lesser Dread Rune"

TierDC(tier) ==
    CASE tier = "greater" -> 38
      [] tier = "moderate" -> 29
      [] OTHER -> 20

\* C20: the notice a turn-end event creates is created only with
\* show-chat-messages on, names the governing tier and carries its DC; it has
\* the multiple-sources line exactly when two or more rune-bearers are in
\* range of the target, and the line then lists every one of them once, the
\* governing one included.  With show-chat-messages off nothing is created.
C20_NoticeContents ==
    [][TriggerStep
        => /\ ~settings.showChat => pending' = pending
           /\ (settings.enable /\ settings.showChat /\ AllFourHold(last'.actor))
                 => Len(pending') = Len(pending) + 1
           /\ \A i \in DOMAIN pending' :
                 i > Len(pending)
                   => LET m == pending'[i].msg
                          g == last'.gov
                          inRange == InRangeBearers(last'.actor)
                          listed == {m.sources[k] : k \in DOMAIN m.sources}
                      IN  /\ settings.showChat
                          /\ g # NoActor
                          /\ m.rune = TierName(TierByName(g))
                          /\ m.dc = TierDC(TierByName(g))
                          /\ m.sources # <<>> <=> Cardinality(inRange) >= 2
                          /\ m.sources # <<>>
                                => /\ listed = inRange
                                   /\ g \in listed
                                   /\ Len(m.sources) = Cardinality(inRange)]_vars

\* a notice for a1 under the moderate tier, DC 29, that lists both bearers
\* in range
C20_Witness ==
    /\ Len(chat) = 1 /\ chat[1].target = "a1"
    /\ chat[1].rune = "Moderate Dread Rune" /\ chat[1].dc = 29
    /\ Len(chat[1].sources) = 2
    /\ \E k \in DOMAIN chat[1].sources : chat[1].sources[k] = last.gov
    /\ last.actor = "a1"

\* C21: among the in-range bearers that share the highest DC the selector
\* returns the one that comes first in the scene's token order; one step of
\* its loop replaces the held choice by an in-range bearer only when that
\* bearer's DC is strictly greater than the held one.
C21_FirstOfTiedWins ==
    /\ (Selected(last) /\ last.gov # NoActor)
          => \A b \in InRangeBearers(last.actor) :
                getDreadRuneData(b).dc = getDreadRuneData(last.gov).dc
                  => TokenIndex(last.gov) <= TokenIndex(b)
    /\ \A t \in ActorIds :
          \A b \in InRangeBearers(t) :
             LET dc == getDreadRuneData(b).dc
                 held(d) == [actor |-> "held", dc |-> d]
             IN  /\ HighestDCLoop(t, <<b>>, held(dc)).actor = "held"
                 /\ HighestDCLoop(t, <<b>>, held(dc + 1)).actor = "held"
                 /\ HighestDCLoop(t, <<b>>, held(dc - 1)).actor = b

\* two lesser bearers 25 feet from a1, a3 before a2 in the token order: the
\* check of a1's turn end was started against a3
C21_Witness ==
    /\ last.actor = "a1" /\ last.gov = "a3" /\ last.status = "awaiting"
    /\ InRangeBearers("a1") = {"a2", "a3"}
    /\ getDreadRuneData("a2").dc = 20 /\ getDreadRuneData("a3").dc = 20
    /\ TokenIndex("a3") < TokenIndex("a2")

\* the actor's trait list holds a tag of the set, whatever its case
HasTag(a, tags) ==
    /\ actors[a].traits.present
    /\ \E i \in DOMAIN actors[a].traits.value : ToLowerWord(actors[a].traits.value[i]) \in tags

\* C22: a non-player character whose trait list holds both an ally tag and
\* an enemy tag, in either order, is an ally: isActorAnAlly is true, its
\* alliance is 'party', and its turn end is decided on that alliance.
C22_AllyTagWins ==
    /\ \A a \in ActorIds :
          (actors[a].type = "npc" /\ HasTag(a, ALLY_TRAITS) /\ HasTag(a, ENEMY_TRAITS))
            => (isActorAnAlly(a) /\ getActorAlliance(a) = "party")
    /\ (/\ Selected(last) /\ last.gov # NoActor /\ actors[last.actor].type = "npc"
        /\ HasTag(last.actor, ALLY_TRAITS) /\ HasTag(last.actor, ENEMY_TRAITS))
          => (last.enemy <=> getActorAlliance(last.gov) = "enemy")

\* a creature tagged evil, then companion, ended its turn 25 feet from a
\* player character's lesser dread rune: of the party, nothing announced
C22_Witness ==
    /\ last.actor = "a1" /\ last.gov = "a2" /\ ~last.enemy /\ last.status = "noop"
    /\ actors["a1"].type = "npc" /\ actors["a1"].name = <<"Goblin">>
    /\ actors["a1"].traits.value = <<"Evil", "Companion">>
    /\ actors["a2"].type = "character"

\* the actor's name holds one of the ally name substrings
HasAllyName(a) ==
    \E w \in {"companion", "ally", "friend", "helper", "assistant", "familiar",
              "pet", "mount", "steed", "guardian", "protector", "escort"} :
        includes(toLowerCase(actors[a].name), w)

\* the alignment traits, and the enemy tags that are not alignment traits
AlignmentAlly == {"good", "lawful"}
AlignmentEnemy == {"evil", "chaotic"}
ExplicitEnemyTags == ENEMY_TRAITS \ AlignmentEnemy

\* the precedence: explicit tags, then the name, then the alignment, then
\* the default 'enemy'
PrecedenceAlly(a) ==
    IF HasTag(a, ALLY_TRAITS) THEN TRUE
    ELSE IF HasTag(a, ExplicitEnemyTags) THEN FALSE
    ELSE IF HasAllyName(a) THEN TRUE
    ELSE IF HasTag(a, AlignmentAlly) THEN TRUE
    ELSE IF HasTag(a, AlignmentEnemy) THEN FALSE
    ELSE FALSE

\* C23: a non-player character is classified by explicit ally and enemy
\* tags first, then by ally name substrings, then by alignment traits, then
\* as 'enemy'; in particular one whose name holds an ally substring and who
\* is tagged 'evil' or 'chaotic' is of the 'party'.
C23_ClassifierPrecedence ==
    \A a \in ActorIds :
        actors[a].type = "npc"
          => /\ isActorAnAlly(a) <=> PrecedenceAlly(a)
             /\ getActorAlliance(a) = (IF PrecedenceAlly(a) THEN "party" ELSE "enemy")
             /\ (/\ HasAllyName(a) /\ HasTag(a, AlignmentEnemy)
                 /\ ~HasTag(a, ExplicitEnemyTags))
                   => getActorAlliance(a) = "party"

\* C24: every actor that is not a player character, a non-player character
\* or of any other kind, gets the alliance its tags, name and alignment give:
\* 'party' exactly when isActorAnAlly holds, so 'party' with an ally tag; and
\* its turn end near a player character's rune is decided on that alliance.
C24_NonPlayerDerived ==
    /\ \A a \in ActorIds :
          actors[a].type # "character"
            => /\ getActorAlliance(a) = (IF isActorAnAlly(a) THEN "party" ELSE "enemy")
               /\ HasTag(a, ALLY_TRAITS) => getActorAlliance(a) = "party"
    /\ (/\ Selected(last) /\ last.gov # NoActor
        /\ actors[last.actor].type # "character" /\ actors[last.gov].type = "character"
        /\ HasTag(last.actor, ALLY_TRAITS))
          => (~last.enemy /\ last.status = "noop")

\* the severities the representations of the actor's condition state hold
\* for frightened: the value of a condition entry, the system value of an
\* active effect, the value of the nested detail object or keyed entry, the
\* number of a 'Frightened N' modifier label; NoValue where a
\* representation carries frightened without a number
SeveritiesOf(act) ==
    {act.conditions.entries[i].value :
        i \in {k \in DOMAIN act.conditions.entries :
                  act.conditions.entries[k].slug = "frightened"}}
    \cup {act.effects.items[i].sysValue :
            i \in {k \in DOMAIN act.effects.items : IsFrightenedEffect(act.effects.items[k])}}
    \cup (IF act.traits.present /\ includes(act.traits.value, "frightened")
          THEN {NoValue} ELSE {})
    \cup (IF act.detailsConditions.present /\ act.detailsConditions.frightened
          THEN {act.detailsConditions.value} ELSE {})
    \cup (IF act.keyed.location # "none"
          THEN {IF act.keyed.value # NoValue THEN act.keyed.value ELSE act.keyed.level}
          ELSE {})
    \cup {IF act.acModifiers.mods[i].label.word = "Frightened"
          THEN act.acModifiers.mods[i].label.n ELSE NoValue :
            i \in {k \in DOMAIN act.acModifiers.mods :
                      act.acModifiers.mods[k].slug = "frightened"}}
    \cup {IF act.otherModifiers[i].label.word = "Frightened"
          THEN act.otherModifiers[i].label.n ELSE NoValue :
            i \in {k \in DOMAIN act.otherModifiers :
                      act.otherModifiers[k].slug = "frightened"}}

\* C25: when every representation that carries frightened holds the same
\* severity N >= 1, whichever representations they are, the extractor finds
\* the condition and the magnitude the trigger uses is N.
C25_MagnitudeIsSeverity ==
    Extracted(last)
      => \A n \in 1..MaxMagnitude :
            SeveritiesOf(actors[last.actor]) = {n}
              => (last.found = "cond" /\ last.value = n)

\* the failed save of the call s found the target frightened at or below
\* the floor of a tier that has one
AtOrBelowFloor(s) ==
    s.found = "cond" /\ HasFloor(s.tier) /\ s.value # NoValue /\ s.value <= FloorOf(s.tier)

\* C26: a failed save that finds the target's magnitude at or below the
\* tier's floor creates no Floor-Effect, and with show-chat-messages on it
\* still starts the failure announcement for the target.
C26_FailureAnnouncedAtFloor ==
    [][(SaveStep /\ AtOrBelowFloor(saves'))
        => /\ creating' = creating /\ docs' = docs
           /\ settings.showChat
                 => /\ Len(pending') = Len(pending) + 1
                    /\ pending'[Len(pending')].msg.failed
                    /\ pending'[Len(pending')].msg.target = saves'.actor]_vars

\* the messages stored in chat or in flight
Messages == {chat[i] : i \in DOMAIN chat} \cup {pending[i].msg : i \in DOMAIN pending}

\* C27: turn-end triggers whose chat creations overlap do not interfere.  A
\* trigger leaves the creations in flight as they are and adds at most its
\* own, for its own target, tier and DC; a creation that completes stores
\* exactly the message its trigger built and completes that trigger's
\* handler; no step writes a document of any actor or changes actors or
\* scene; every message carries the tier and DC of its own target's
\* governing source.
C27_OverlapIndependent ==
    [][/\ docs' = docs /\ actors' = actors /\ scene' = scene
       /\ TriggerStep
            => /\ chat' = chat
               /\ \A i \in DOMAIN pending : i \in DOMAIN pending' /\ pending'[i] = pending[i]
               /\ \A i \in DOMAIN pending' :
                     i > Len(pending)
                       => /\ pending'[i].actor = last'.actor
                          /\ pending'[i].msg.target = last'.actor
                          /\ pending'[i].msg.rune = getDreadRuneData(last'.gov).name
                          /\ pending'[i].msg.dc = getDreadRuneData(last'.gov).dc
       /\ (~TriggerStep /\ pending' # pending)
            => \E i \in DOMAIN pending :
                  /\ pending' = RemoveAt(pending, i)
                  /\ chat' = chat \/ chat' = Append(chat, pending[i].msg)
                  /\ completed'.actor = pending[i].actor
       /\ \A m \in Messages :
             LET g == getDreadRuneActorAffecting(m.target)
             IN  g # NoActor /\ m.rune = getDreadRuneData(g).name
                             /\ m.dc = getDreadRuneData(g).dc]_vars

\* a1's turn end, then a2's while a1's message was still being created; the
\* second creation completed first: a2 against DC 38, a1 against DC 29
C27_Witness ==
    /\ triggers = 2 /\ last.actor = "a2" /\ pending = <<>>
    /\ Len(chat) = 2
    /\ chat[1].target = "a2" /\ chat[1].dc = 38
    /\ chat[2].target = "a1" /\ chat[2].dc = 29
    /\ docs = [a \in ActorIds |-> <<>>]

\* C28: the detector and the tier lookup agree on every actor, for string
\* and structured runes alike: hasDreadRuneArmor holds iff getDreadRuneData
\* gives a tier; so every actor of getDreadRuneActors has rune data, and a
\* bearer standing within 30 feet of the turn's actor is never skipped: it is
\* among the affecting actors and some bearer governs.
C28_DetectorAndLookupAgree ==
    /\ \A a \in ActorIds : hasDreadRuneArmor(a) <=> getDreadRuneData(a) # NoRune
    /\ \A i \in DOMAIN getDreadRuneActors : getDreadRuneData(getDreadRuneActors[i]) # NoRune
    /\ Selected(last)
          => \A i \in DOMAIN getDreadRuneActors :
                LET b == getDreadRuneActors[i]
                IN  WithinFeet(last.actor, b, 30)
                      => /\ last.gov # NoActor
                         /\ \E k \in DOMAIN getAllDreadRuneActorsAffecting(last.actor) :
                               getAllDreadRuneActorsAffecting(last.actor)[k] = b

\* a2 wears a structured rune with an empty name and the slug "dread": the
\* detector accepts it, the lookup gives the lesser tier, and a2 governs
C28_Witness ==
    /\ last.actor = "a1" /\ last.gov = "a2" /\ last.status = "awaiting"
    /\ Len(actors["a2"].armor) = 1
    /\ actors["a2"].armor[1].property = <<ObjectRune(<<>>, <<"dread">>)>>
    /\ hasDreadRuneArmor("a2") /\ getDreadRuneData("a2").dc = 20

\* the bearer that governs the target when the target itself is left out of
\* the candidates
GoverningAmongOthers(t) ==
    IF ~scene.active THEN NoActor
    ELSE HighestDCLoop(t, SelectSeq(getDreadRuneActors, LAMBDA b : b # t),
                       [actor |-> NoActor, dc |-> -1]).actor

\* C29: the governing source of an evaluation is never the turn's actor
\* itself; when that actor wears a dread rune, the evaluation goes as if it
\* wore none: a frightened actor that meets the floor of an enemy bearer
\* governing among the others is still put to the save.
C29_SelfNeverGoverns ==
    (Selected(last) /\ findFrightenedCondition(last.actor).kind = "cond")
      => /\ last.gov # last.actor
         /\ LET g == GoverningAmongOthers(last.actor)
                fc == findFrightenedCondition(last.actor)
            IN  (/\ g # NoActor
                 /\ isActorEnemyOf(last.actor, g)
                 /\ fc.kind = "cond"
                 /\ MeetsFloor(getDreadRuneData(g), OrOne(fc.value)))
                  => Proceeded(last)

\* some bearer in range of the frightened actor t is its enemy and has a
\* tier whose threshold t's magnitude meets
EnemyBearerInRange(t) ==
    LET fc == findFrightenedCondition(t)
    IN  /\ fc.kind = "cond"
        /\ \E b \in InRangeBearers(t) :
              /\ getActorAlliance(t) # getActorAlliance(b)
              /\ MeetsFloor(getDreadRuneData(b), OrOne(fc.value))

\* C30: with automation on, the turn end of a frightened actor (one that
\* wears no dread rune itself) in range of an enemy bearer whose threshold
\* it meets goes on to the announcement, and with show-chat-messages on the
\* save is announced, whatever other bearers are in range: an ally's, even
\* of a higher DC, does not suppress it.
C30_AllyBearerDoesNotSuppress ==
    [][(/\ TriggerStep /\ settings.enable
        /\ last'.actor # NoActor /\ ~hasDreadRuneArmor(last'.actor)
        /\ EnemyBearerInRange(last'.actor))
        => /\ Proceeded(last')
           /\ settings.showChat
                 => /\ Len(pending') = Len(pending) + 1
                    /\ pending'[Len(pending')].msg.target = last'.actor]_vars

====
